---- MODULE Spec2Model ----
(***************************************************************************)
(* A model of fractal3D's control path (src/src/main.rs): the Bevy systems *)
(* update_material, mouse_controls, manage_rendering_mode and ui_controls, *)
(* the material record they mutate, the SimSettings resource, the winit    *)
(* update modes, and the per-frame copy of the material the shader reads.  *)
(*                                                                         *)
(* Reals are fixed-point integers: a value v is stored as v * FX.  Angles  *)
(* are in 1/FX radians, time is in ticks of 1/TimeHz seconds.              *)
(***************************************************************************)
EXTENDS Integers, Sequences, FiniteSets, TLC

\* ------------------------------------------------------------------ bounds

\* Frames a behaviour of each specification runs for.
MaxTicks == 3
MaxTicksUI == 2
MaxTicksJulia == 4
MaxTicksRot == 4
MaxTicksAnim == 52
\* Frames of SpecAnim in which the control surface is worked.
MaxEditTicks == 4
\* Pixels evaluated per frame by the render path.
NPixels == 2

\* ------------------------------------------------------- fixed-point reals

\* Resolution of a stored real (f32 fields of the material and settings).
FX == 10000
\* Ticks of the clock per second; the fixed timestep is 1/64 s = 2 ticks.
TimeHz == 128
FixedStep == 2
\* Time<Virtual> caps a frame's delta at 250 ms.
MaxDelta == 32

Ln2 == 6931
Pi == 31416
TwoPi == 62832
HalfPi == 15708

\* n / d rounded to the nearest integer (d > 0): one floating-point rounding.
Rnd(n, d) == (2 * n + d) \div (2 * d)

Clamp(v, lo, hi) == IF v < lo THEN lo ELSE IF v > hi THEN hi ELSE v

\* sin on [0, pi/2] by its Taylor series to x^9, in Horner form.
SinQ(x) ==
    LET x2 == Rnd(x * x, FX)
        t4 == FX - Rnd(x2 * FX, 72 * FX)
        t3 == FX - Rnd(x2 * t4, 42 * FX)
        t2 == FX - Rnd(x2 * t3, 20 * FX)
        t1 == FX - Rnd(x2 * t2, 6 * FX)
    IN  Rnd(x * t1, FX)

\* f64::sin / f32::sin: range reduction, then the quarter wave; the result of
\* the library function never leaves [-1, 1].
Sin(a) ==
    LET r == a % TwoPi
        s == IF r <= HalfPi THEN SinQ(r)
             ELSE IF r <= Pi THEN SinQ(Pi - r)
             ELSE IF r <= Pi + HalfPi THEN -SinQ(r - Pi)
             ELSE -SinQ(TwoPi - r)
    IN  Clamp(s, -FX, FX)

Cos(a) == Sin(a + HalfPi)

\* 2^k, by squaring.
RECURSIVE Pow2(_)
Pow2(k) ==
    IF k <= 0 THEN 1
    ELSE IF k % 2 = 1 THEN 2 * Pow2(k - 1)
    ELSE Pow2(k \div 2) * Pow2(k \div 2)

\* 2^(f/FX) for 0 <= f < FX, by the exponential series of f * ln 2.
Exp2Frac(f) ==
    LET u == Rnd(f * Ln2, FX)
        h5 == FX + Rnd(u, 5)
        h4 == FX + Rnd(u * h5, 4 * FX)
        h3 == FX + Rnd(u * h4, 3 * FX)
        h2 == FX + Rnd(u * h3, 2 * FX)
    IN  FX + Rnd(u * h2, FX)

\* 16.0_f32.powf(t): 2^(4t), the whole part of 4t as a shift.
Pow16(t) ==
    LET k == (4 * t) \div FX
        e == Exp2Frac((4 * t) % FX)
    IN  IF k >= 0 THEN Pow2(k) * e ELSE e \div Pow2(-k)

\* Integer square root (floor), by Newton's iteration.
RECURSIVE SqrtIter(_, _)
SqrtIter(n, g) ==
    LET h == (g + n \div g) \div 2
    IN  IF h >= g THEN g ELSE SqrtIter(n, h)

\* The iteration starts above the root: at n, or at the root of the largest
\* integer if n is beyond it.
ISqrt(n) == IF n <= 0 THEN 0 ELSE SqrtIter(n, IF n > 46340 THEN 46340 ELSE n)

\* The square root rounded to the nearest integer.
SqrtNearest(n) == LET r == ISqrt(n) IN IF n - r * r > r THEN r + 1 ELSE r

\* --------------------------------------------------------------- quaternions

\* glam's Quat / Vec4 layout: x, y, z, w.
Quat(x, y, z, w) == [x |-> x, y |-> y, z |-> z, w |-> w]

QuatIdentity == Quat(0, 0, 0, FX)

\* Quat::from_rotation_y(angle), Quat::from_rotation_x(angle): the sine and
\* cosine of half the angle.
FromRotationY(angle) == Quat(0, Sin(Rnd(angle, 2)), 0, Cos(Rnd(angle, 2)))

FromRotationX(angle) == Quat(Sin(Rnd(angle, 2)), 0, 0, Cos(Rnd(angle, 2)))

\* Quat * Quat: the Hamilton product, each component rounded once.
QuatMul(p, q) ==
    Quat(Rnd(p.w * q.x + p.x * q.w + p.y * q.z - p.z * q.y, FX),
         Rnd(p.w * q.y - p.x * q.z + p.y * q.w + p.z * q.x, FX),
         Rnd(p.w * q.z + p.x * q.y - p.y * q.x + p.z * q.w, FX),
         Rnd(p.w * q.w - p.x * q.x - p.y * q.y - p.z * q.z, FX))

NormSq(q) == q.x * q.x + q.y * q.y + q.z * q.z + q.w * q.w

\* The composition stored as it is.
NormalizeSkipped(q) == q

\* The power of two k that brings the squared length s * k * k into
\* [2^29, 2^31), where its square root keeps a float's precision.
RECURSIVE NormScale(_)
NormScale(s) == IF s <= 0 \/ s >= 536870912 THEN 1 ELSE 2 * NormScale(s * 4)

\* Quat::normalize: every component divided by the length, whatever the
\* length is.  (The zero quaternion has no direction; the code never
\* normalizes it.)
Normalize(q) ==
    LET k == NormScale(NormSq(q))
        len == SqrtNearest(NormSq(q) * k * k)
    IN  IF len = 0 THEN q
        ELSE Quat(Rnd(q.x * FX * k, len), Rnd(q.y * FX * k, len),
                  Rnd(q.z * FX * k, len), Rnd(q.w * FX * k, len))

\* --------------------------------------------------------------------- state

VARIABLES
    mat,            \* the one MandelbulbMaterial asset
    settings,       \* the SimSettings resource
    winit_settings, \* the WinitSettings resource
    elapsed,        \* Time::elapsed, in clock ticks
    delta,          \* Time::delta, in clock ticks
    overstep,       \* Time<Fixed>'s accumulated, not yet consumed time
    should_update,  \* the message registry's update signal: "Waiting" or "Ready"
    motion,         \* MouseMotion messages mouse_controls has not read
    input,          \* what the window and the control surface deliver this frame
    pc,             \* the schedule the frame is in
    order,          \* the systems that have run in this frame, in order
    tick,           \* frames started
    snapshot,       \* the render world's copy of the material
    frame,          \* copies taken
    dispatched,     \* whether the copy's frame is being drawn
    pix             \* what each pixel of the frame being drawn has read

vars == <<mat, settings, winit_settings, elapsed, delta, overstep, should_update,
          motion, input, pc, order, tick, snapshot, frame, dispatched, pix>>

\* The window's size (Window::width, Window::height) as the window is
\* created, and the sizes it is given.
WinSize == <<1280, 720>>

WindowSizes == {WinSize, <<800, 600>>}

\* setup: the material as spawned.
SetupMaterial ==
    [resolution |-> WinSize,
     power |-> 8 * FX,
     ray_steps |-> 100,
     mandel_iters |-> 20,
     max_dist |-> 40 * FX,
     hit_threshold |-> 20,
     camera_zoom |-> 25000,
     palette_id |-> 0,
     light_pos_x |-> 2 * FX,
     light_pos_y |-> 4 * FX,
     background_glow_intensity |-> 0,
     color_scale |-> FX,
     color_offset |-> 0,
     ao_strength |-> FX,
     rim_strength |-> 5000,
     rotation |-> QuatIdentity,
     julia |-> Quat(3500, 3500, -3500, 0)]

\* SimSettings::default.
DefaultSettings ==
    [rotation_speed |-> 2000,
     animate_zoom |-> FALSE,
     zoom_speed |-> FX,
     animate_power |-> FALSE,
     power_speed |-> FX]

\* UpdateMode: Continuous, or Reactive / ReactiveLowPower with a wait in
\* microseconds.
Continuous == [kind |-> "Continuous", wait |-> 0]

Reactive(wait) == [kind |-> "Reactive", wait |-> wait]

\* WinitSettings::desktop_app().
DesktopApp ==
    [focused_mode |-> Reactive(5000000),
     unfocused_mode |-> [kind |-> "ReactiveLowPower", wait |-> 60000000]]

\* ------------------------------------------------------------------- inputs

\* A control-surface interaction: the widget w is given the value v (a
\* checkbox is clicked, a combo-box option is chosen by its place in the list).
Edit(w, v) == [w |-> w, v |-> v]

NoEdit == Edit("none", 0)

\* A frame's input: the real time since the last frame, the pointer motion,
\* the left button, whether egui has the pointer, the interaction with the
\* control surface, whether the frame's pixels are drawn, and the window's
\* size in this frame.
Input(dt, mo, left, over, e, vis) ==
    [dt |-> dt, motion |-> mo, left |-> left, over_ui |-> over, edit |-> e,
     visible |-> vis, window |-> WinSize]

\* The frame's input with the window resized to size.
Resized(in, size) == [in EXCEPT !.window = size]

NoInput == Input(0, <<>>, FALSE, FALSE, NoEdit, FALSE)

Init ==
    /\ mat = SetupMaterial
    /\ settings = DefaultSettings
    /\ winit_settings = DesktopApp
    /\ elapsed = 0
    /\ delta = 0
    /\ overstep = 0
    /\ should_update = "Waiting"
    /\ motion = [old |-> <<>>, new |-> <<>>]
    /\ input = NoInput
    /\ pc = "winit"
    /\ order = <<>>
    /\ tick = 0
    /\ snapshot = SetupMaterial
    /\ frame = 0
    /\ dispatched = FALSE
    /\ pix = [p \in 1..NPixels |-> <<>>]

\* --------------------------------------------------------- update_material

\* The normalized sine of the power animation, and the power it gives.
PowerPhase(el, speed) == Rnd(el * speed, 10 * TimeHz)

\* The sine used as it is, not normalized to [0, 1].
AnimTRaw(el, speed) == Sin(PowerPhase(el, speed))

AnimT(el, speed) == 5000 + Rnd(Sin(PowerPhase(el, speed)), 2)

AnimPower(el, speed) == Pow16(AnimT(el, speed))

\* The zoom of the zoom animation.
ZoomPhase(el, speed) == Rnd(el * speed, TimeHz)

AnimZoom(el, speed) == 27500 + Rnd(Sin(ZoomPhase(el, speed)), 4)

\* The automatic rotation: yaw and pitch by rotation_speed * delta_secs,
\* composed on the left of the stored orientation.
SpinAngle(speed, dl) == Rnd(speed * dl, TimeHz)

AutoRotate(q, speed, dl) ==
    Normalize(QuatMul(QuatMul(FromRotationY(SpinAngle(speed, dl)),
                              FromRotationX(SpinAngle(speed, dl))), q))

UpdateMaterialFn(m, s, el, dl, win) ==
    [m EXCEPT
        !.resolution = win,
        !.power = IF s.animate_power THEN AnimPower(el, s.power_speed) ELSE @,
        !.rotation = IF s.rotation_speed > 0
                     THEN AutoRotate(@, s.rotation_speed, dl) ELSE @,
        !.camera_zoom = IF s.animate_zoom THEN AnimZoom(el, s.zoom_speed) ELSE @]

\* ---------------------------------------------------------- mouse_controls

\* let sensitivity = 0.005
Sensitivity == 50

\* One MouseMotion message composed on the right of the orientation.
DragRotate(q, ev) ==
    Normalize(QuatMul(QuatMul(q, FromRotationY(ev[1] * Sensitivity)),
                      FromRotationX((-ev[2]) * Sensitivity)))

\* for ev in motion_evr.read(): the messages in order, each composed on the
\* orientation the one before it left (worked out before the next is taken).
RECURSIVE ApplyMotion(_, _)
ApplyMotion(q, evs) ==
    IF evs = <<>> THEN q
    ELSE LET r == DragRotate(q, Head(evs))
         IN  IF r = r THEN ApplyMotion(r, Tail(evs)) ELSE q

\* ctx.is_pointer_over_area() || ctx.wants_pointer_input()
PointerCaptured(in) == in.over_ui

\* Whether this run of mouse_controls reaches motion_evr.read().
ReadsMotion(in) == ~PointerCaptured(in) /\ in.left

\* MessageReader::read: every message still buffered that the reader has not
\* yet seen, oldest first.
Unread(mo) == mo.old \o mo.new

\* ---------------------------------------------------- manage_rendering_mode

\* The check of the flags alone, the rotation forgotten.
IsAnimatingNoSpin(s) == s.animate_zoom \/ s.animate_power

IsAnimating(s) == s.animate_zoom \/ s.animate_power \/ s.rotation_speed > 0

\* Duration::from_secs_f64(1.0 / 60.0) and Duration::from_secs(1), in
\* microseconds.
FocusedWait == 16666
UnfocusedWait == 1000000

RenderingMode(s) ==
    IF IsAnimating(s)
    THEN [focused_mode |-> Continuous, unfocused_mode |-> Continuous]
    ELSE [focused_mode |-> Reactive(FocusedWait),
          unfocused_mode |-> Reactive(UnfocusedWait)]

\* -------------------------------------------------------------- ui_controls

\* The value an interaction gives widget w, if the interaction is with w.
Req(e, w) == IF e.w = w THEN <<e.v>> ELSE <<>>

\* A widget added with ui.add, enabled or not.
AddAlways(enabled, req) == req

\* ui.add_enabled(enabled, widget): a disabled widget takes no interaction.
AddEnabled(enabled, req) == IF enabled THEN req ELSE <<>>

\* A slider that writes the requested value back as it is.
SliderUnclamped(cur, req, lo, hi, step) == IF req = <<>> THEN cur ELSE req[1]

\* ---- the floats behind a stepped slider
\*
\* A slider with step_by stores start + ((value - start) / step).round() * step,
\* computed in f64; `round` takes a half away from zero.  For a value midway
\* between two steps the computed quotient is the half itself or lies just
\* beside it, and which, depends on the floats at hand: the range's start is
\* an f32, the value is the field's f32 or the f64 the interaction delivers,
\* the step is an f64.  The definitions below decide it as the code's
\* arithmetic does.

\* 2^p modulo FX.
RECURSIVE Pow2Mod(_)
Pow2Mod(p) ==
    IF p <= 0 THEN 1
    ELSE IF p % 2 = 1 THEN (2 * Pow2Mod(p - 1)) % FX
    ELSE (Pow2Mod(p \div 2) * Pow2Mod(p \div 2)) % FX

\* The binary exponent of a / FX (a > 0): the e with 2^e <= a / FX < 2^(e+1),
\* searched from e.
RECURSIVE F32Exp(_, _)
F32Exp(a, e) ==
    IF a >= FX
    THEN IF Pow2(e + 1) * FX <= a THEN F32Exp(a, e + 1) ELSE e
    ELSE IF a * Pow2(-e) < FX THEN F32Exp(a, e - 1) ELSE e

\* What an f32 adds to the decimal d / FX it stands for: r / (FX * 2^p).  The
\* f32 keeps 24 bits, d * 2^p / FX rounded to the nearest integer.
F32Err(d) ==
    IF d = 0 THEN [r |-> 0, p |-> 0]
    ELSE LET a == IF d < 0 THEN -d ELSE d
             p == 23 - F32Exp(a, 0)
             rem == ((a % FX) * Pow2Mod(p)) % FX
             r == IF rem = 0 THEN 0 ELSE IF 2 * rem > FX THEN FX - rem ELSE -rem
         IN  [r |-> IF d < 0 THEN -r ELSE r, p |-> p]

\* The order of two such errors: -1, 0 or 1 as a is below, at or above b.
ErrCmp(a, b) ==
    IF a.r = 0 \/ b.r = 0 \/ (a.r < 0) # (b.r < 0)
    THEN IF a.r < b.r THEN -1 ELSE IF a.r > b.r THEN 1 ELSE 0
    ELSE LET pm == IF a.p > b.p THEN a.p ELSE b.p
             x == a.r * Pow2(pm - a.p)
             y == b.r * Pow2(pm - b.p)
         IN  IF x < y THEN -1 ELSE IF x > y THEN 1 ELSE 0

\* Where both the value and the start are exact in the f64 arithmetic's eyes
\* (a start of 0.0 or -2.0, a value delivered as an f64), the rounding of the
\* f64 operations decides.  These are the midway values whose quotient comes
\* out below the half: for a start of 0.0, as hundredths of the step, and for
\* the range -2.0..=2.0 with step 0.005.
ShortOfHalfFromZero ==
    {1450, 2350, 2850, 2950, 5650, 5750, 5850, 5950, 10050, 10150, 10250,
     10350, 10450, 10550, 10650, 12550, 12650, 12750, 17550, 20050, 21350,
     21550, 21750, 21950, 22150, 22350, 22550, 23850, 24050, 24250, 24450,
     24650, 24850, 25050, 36350, 38850, 40150, 40550, 40950, 41350, 41450,
     41850, 42250, 42650, 43050, 43450, 43850, 43950, 44350, 44750, 45150,
     45550, 45950, 46350, 46450, 46850, 47250, 47650, 48050, 48450, 48850,
     48950, 49350, 49750}

ShortOfHalfJulia ==
    {-19975, -19875, -19775, -19675, -19575, -19475, -19325, -19225, -19125,
     -19025, -18925, -18825, -18725, -18625, -18525, -18425, -18325, -18075,
     -17975, -17875, -17775, -17675, -17575, -17475, -17375, -17275, -17175,
     -17075, -16825, -16725, -16625, -16525, -16425, -16325, -16225, -16125,
     -16025, -15575, -15475, -15375, -15275, -15175, -15075, -14975, -14875,
     -14775, -14675, -14325, -14225, -14125, -14025, -13925, -13825, -13725,
     -13625, -13075, -12975, -12875, -12775, -12675, -12575, -11825, -11725,
     -11625, -11525, -11425, -11325, -11225, -10575, -10475, -10375, -10275,
     -10175, -10075, -9975, -9925, -9725, -9525, -9325, -9125, -8925, -8725,
     -8675, -8475, -8275, -8075, -7875, -7675, -7475, -7425, -7225, -7025,
     -6175, -5975, -5775, -4525, -3275, -2025, -1825, -575, 75, 275, 475,
     675, 725, 925, 1125, 1325, 1525, 1725, 1925, 1975, 2175, 2375, 2575,
     2775, 2825, 2975, 3175, 3225, 3625, 3825, 4025, 4075, 4225, 4425, 4475,
     4875, 5075, 5275, 5325, 5475, 6575, 7825, 9075, 10325, 10775, 11175,
     11575, 12025, 12425, 12825, 13275, 13675, 14075, 14475, 14525, 14925,
     15325, 15725, 15775, 16175, 16575, 16975, 17025, 17425, 17825, 18225,
     18275, 18675, 19075, 19475, 19525, 19925}

FallsShort64(v, lo, step) ==
    IF lo = 0 THEN ((v * 100) \div step) \in ShortOfHalfFromZero
    ELSE IF lo = -2 * FX /\ step = 50 THEN v \in ShortOfHalfJulia
    ELSE FALSE

\* Whether the quotient of the midway value v comes out below the half.  The
\* error of an f32 outweighs the f64 arithmetic's by far: the value's f32
\* error (stored: v is the field's own value, not a delivered one) against
\* the start's decides, and the f64 arithmetic only where they are equal.
FallsShort(v, lo, step, stored) ==
    LET c == ErrCmp(IF stored THEN F32Err(v) ELSE F32Err(0), F32Err(lo))
    IN  c < 0 \/ (c = 0 /\ FallsShort64(v, lo, step))

\* ((value - start) / step).round() for value - start = n (n >= 0) and
\* step = d: the nearest integer, from a half the lower one if the quotient
\* falls short of the half.
RndStep(n, d, short) ==
    LET k == n \div d
        rest == n % d
    IN  IF 2 * rest < d \/ (2 * rest = d /\ short) THEN k ELSE k + 1

\* egui::Slider::new(&mut cur, lo..=hi) with step_by(step) (0: no step): the
\* value, the requested one if there is one, is clamped to the range and
\* rounded to the nearest step counted from the range's start, and written
\* back.
Slider(cur, req, lo, hi, step) ==
    LET v == Clamp(IF req = <<>> THEN cur ELSE req[1], lo, hi)
    IN  IF step > 0
        THEN lo + RndStep(v - lo, step, FallsShort(v, lo, step, req = <<>>)) * step
        ELSE v

\* A slider over a copy `cur as f32` of a u32 field, written back `as u32`
\* only when the slider reports a change.  The slider clamps the copy, not
\* the field, and compares the value it ends with against the clamped copy:
\* with no interaction nothing is written, and a field outside the range
\* stays as it is.
SliderU32(cur, req, lo, hi) ==
    LET old == Slider(cur * FX, <<>>, lo * FX, hi * FX, 0)
        f == Slider(cur * FX, req, lo * FX, hi * FX, 0)
    IN  IF req # <<>> /\ f # old THEN f \div FX ELSE cur

\* ui.checkbox(&mut b, ..): a click flips b.
Checkbox(b, e, w) == IF e.w = w THEN ~b ELSE b

\* The palette combo box: the options' values and labels, in the order
\* listed, and the text shown for the stored palette_id.
PaletteOptions ==
    << [value |-> 0, label |-> "Standard"],
       [value |-> 2, label |-> "Fire"],
       [value |-> 3, label |-> "Neon"] >>

SelectedText(id) ==
    CASE id = 0 -> "Standard"
      [] id = 1 -> "Fire (Red/Yellow)"
      [] id = 2 -> "Neon (Purple/Green)"
      [] OTHER -> "Unknown"

\* ui.selectable_value(&mut palette_id, value, label) for each option.
ComboBox(cur, e) ==
    IF e.w = "palette_id" /\ e.v \in 1..Len(PaletteOptions)
    THEN PaletteOptions[e.v].value ELSE cur

\* The Julia block with its sliders shown whether the toggle is on or off.
JuliaControlsShown(j, e) ==
    [x |-> IF e.w = "julia_x" THEN Clamp(e.v, -2 * FX, 2 * FX) ELSE j.x,
     y |-> IF e.w = "julia_y" THEN Clamp(e.v, -2 * FX, 2 * FX) ELSE j.y,
     z |-> IF e.w = "julia_z" THEN Clamp(e.v, -2 * FX, 2 * FX) ELSE j.z,
     w |-> IF e.w = "julia_enabled" THEN (IF j.w > 5000 THEN 0 ELSE FX) ELSE j.w]

\* The Julia block: the toggle, then the three sliders when it is on.
IsJulia(j) == j.w > 5000

JuliaControls(j, e) ==
    LET is_julia == Checkbox(IsJulia(j), e, "julia_enabled")
        w == IF is_julia # IsJulia(j) THEN (IF is_julia THEN FX ELSE 0) ELSE j.w
    IN  IF is_julia
        THEN [x |-> Slider(j.x, Req(e, "julia_x"), -2 * FX, 2 * FX, 50),
              y |-> Slider(j.y, Req(e, "julia_y"), -2 * FX, 2 * FX, 50),
              z |-> Slider(j.z, Req(e, "julia_z"), -2 * FX, 2 * FX, 50),
              w |-> w]
        ELSE [j EXCEPT !.w = w]

\* The settings after the window's widgets have run.
UiSettings(s, e) ==
    LET ap == Checkbox(s.animate_power, e, "animate_power")
        az == Checkbox(s.animate_zoom, e, "animate_zoom")
    IN  [rotation_speed |-> Slider(s.rotation_speed, Req(e, "rotation_speed"), 0, FX, 0),
         animate_power |-> ap,
         power_speed |-> IF ap THEN Slider(s.power_speed, Req(e, "power_speed"),
                                           100, 4 * FX, 0)
                         ELSE s.power_speed,
         animate_zoom |-> az,
         zoom_speed |-> IF az THEN Slider(s.zoom_speed, Req(e, "zoom_speed"),
                                          1000, 5 * FX, 0)
                        ELSE s.zoom_speed]

\* The material after the window's widgets have run.
UiMaterial(m, s, e) ==
    [m EXCEPT
        !.power = Slider(@, AddEnabled(~s.animate_power, Req(e, "power")),
                         FX, 16 * FX, 0),
        !.mandel_iters = SliderU32(@, Req(e, "mandel_iters"), 1, 50),
        !.ray_steps = SliderU32(@, Req(e, "ray_steps"), 10, 300),
        !.hit_threshold = Slider(@, Req(e, "hit_threshold"), 1, 100, 0),
        !.max_dist = Slider(@, Req(e, "max_dist"), 10 * FX, 100 * FX, 0),
        !.camera_zoom = Slider(@, AddEnabled(~s.animate_zoom, Req(e, "camera_zoom")),
                               1000, 10 * FX, 0),
        !.background_glow_intensity =
            Slider(@, Req(e, "background_glow_intensity"), 0, 5 * FX, 0),
        !.palette_id = ComboBox(@, e),
        !.color_scale = Slider(@, Req(e, "color_scale"), 1000, 3 * FX, 100),
        !.color_offset = Slider(@, Req(e, "color_offset"), 0, FX, 50),
        !.light_pos_x = Slider(@, Req(e, "light_pos_x"), -10 * FX, 10 * FX, 0),
        !.light_pos_y = Slider(@, Req(e, "light_pos_y"), -10 * FX, 10 * FX, 0),
        !.ao_strength = Slider(@, Req(e, "ao_strength"), 0, 5 * FX, 100),
        !.rim_strength = Slider(@, Req(e, "rim_strength"), 0, 2 * FX, 100),
        !.julia = JuliaControls(@, e)]

\* ------------------------------------------------------------------ actions

Ran(name) == \E i \in 1..Len(order) : order[i] = name

\* The egui pass entered after two of the three systems.
DoneEarly(name) ==
    /\ order' = Append(order, name)
    /\ pc' = IF Len(order) + 1 = 2 THEN "egui" ELSE "update"

\* A system of the Update schedule has run; the egui pass follows the last.
Done(name) ==
    /\ order' = Append(order, name)
    /\ pc' = IF Len(order) + 1 = 3 THEN "egui" ELSE "update"

\* The start of a frame.  winit forwards the window's events, the First
\* schedule advances the clock and, when a fixed update has signalled it,
\* swaps the message buffers (dropping the older one), and the
\* fixed-timestep loop signals the next swap if it runs.  The first frame's
\* delta is zero.
BeginFrame(Inputs, maxTicks) ==
    /\ pc = "winit"
    /\ tick < maxTicks
    /\ \E in \in Inputs :
        LET dl == IF tick = 0 THEN 0
                  ELSE IF in.dt > MaxDelta THEN MaxDelta ELSE in.dt
            written == [motion EXCEPT !.new = @ \o in.motion]
            acc == overstep + dl
        IN  /\ input' = in
            /\ delta' = dl
            /\ elapsed' = elapsed + dl
            /\ motion' = IF should_update = "Waiting" THEN written
                         ELSE [old |-> written.new, new |-> <<>>]
            /\ overstep' = acc % FixedStep
            /\ should_update' = IF acc >= FixedStep THEN "Ready" ELSE "Waiting"
    /\ pc' = "update"
    /\ order' = <<>>
    /\ tick' = tick + 1
    /\ UNCHANGED <<mat, settings, winit_settings, snapshot, frame, dispatched, pix>>

update_material ==
    /\ pc = "update"
    /\ ~Ran("update_material")
    /\ mat' = UpdateMaterialFn(mat, settings, elapsed, delta, input.window)
    /\ Done("update_material")
    /\ UNCHANGED <<settings, winit_settings, elapsed, delta, overstep, should_update,
                   motion, input, tick, snapshot, frame, dispatched, pix>>

mouse_controls ==
    /\ pc = "update"
    /\ ~Ran("mouse_controls")
    /\ IF ReadsMotion(input)
       THEN /\ mat' = [mat EXCEPT !.rotation = ApplyMotion(@, Unread(motion))]
            /\ motion' = [old |-> <<>>, new |-> <<>>]
       ELSE UNCHANGED <<mat, motion>>
    /\ Done("mouse_controls")
    /\ UNCHANGED <<settings, winit_settings, elapsed, delta, overstep, should_update,
                   input, tick, snapshot, frame, dispatched, pix>>

manage_rendering_mode ==
    /\ pc = "update"
    /\ ~Ran("manage_rendering_mode")
    /\ winit_settings' = RenderingMode(settings)
    /\ Done("manage_rendering_mode")
    /\ UNCHANGED <<mat, settings, elapsed, delta, overstep, should_update,
                   motion, input, tick, snapshot, frame, dispatched, pix>>

ui_controls ==
    /\ pc = "egui"
    /\ mat' = UiMaterial(mat, settings, input.edit)
    /\ settings' = UiSettings(settings, input.edit)
    /\ order' = Append(order, "ui_controls")
    /\ pc' = "extract"
    /\ UNCHANGED <<winit_settings, elapsed, delta, overstep, should_update,
                   motion, input, tick, snapshot, frame, dispatched, pix>>

\* The frame's copy of the material for the render world, taken once the
\* main schedules are through and the previous frame has been drawn.
Extract ==
    /\ pc = "extract"
    /\ dispatched => \A p \in 1..NPixels : pix[p] # <<>>
    /\ snapshot' = mat
    /\ frame' = frame + 1
    /\ dispatched' = input.visible
    /\ pix' = [p \in 1..NPixels |-> <<>>]
    /\ input' = NoInput
    /\ order' = Append(order, "snapshot")
    /\ pc' = "winit"
    /\ UNCHANGED <<mat, settings, winit_settings, elapsed, delta, overstep,
                   should_update, motion, tick>>

\* The live material read in place of the copy.
PixelSourceLive == mat

\* The record a pixel's evaluation reads its parameters from: the uniform
\* buffer bound from the render world's copy.
PixelSource == snapshot

\* One pixel of the frame being drawn is evaluated.
RenderPixel ==
    /\ dispatched
    /\ \E p \in 1..NPixels :
        /\ pix[p] = <<>>
        /\ pix' = [pix EXCEPT ![p] = <<PixelSource>>]
    /\ UNCHANGED <<mat, settings, winit_settings, elapsed, delta, overstep,
                   should_update, motion, input, pc, order, tick, snapshot, frame,
                   dispatched>>

\* ----------------------------------------------------------- specifications

\* Pointer motions, in pixels.
MotionA == <<40, 0>>
MotionB == <<-30, 70>>

\* Interactions with the animation controls.
EditsMain ==
    {NoEdit, Edit("animate_power", 0), Edit("animate_zoom", 0),
     Edit("rotation_speed", 0), Edit("rotation_speed", 5000)}

\* The frames of Spec: a steady clock, no pointer, drawn or not, the window
\* resized or not.
InputsMain ==
    {Resized(Input(2, <<>>, FALSE, FALSE, e, vis), size) :
        e \in EditsMain, vis \in BOOLEAN, size \in WindowSizes}

\* The values asked of each slider: below its range, inside it, above it;
\* for a slider over a u32, a value with a fraction; for a slider with a
\* step, values off the step and midway between two steps (of those, some
\* that the code takes to the lower and some that it takes to the upper step).
Requests ==
    [power |-> {0, 5 * FX, 20 * FX},
     mandel_iters |-> {0, 35 * FX, 357000, 99 * FX},
     ray_steps |-> {0, 200 * FX, 2005000, 301 * FX},
     max_dist |-> {5 * FX, 70 * FX, 101 * FX},
     camera_zoom |-> {0, 4 * FX, 11 * FX},
     color_scale |-> {0, 2 * FX, 12340, 12350, 31000},
     color_offset |-> {-50, 25, 725, 5000, 5020, 10050},
     light_pos_x |-> {-11 * FX, 0, 11 * FX},
     light_pos_y |-> {-11 * FX, 0, 11 * FX},
     ao_strength |-> {50, 1450},
     rim_strength |-> {2360}]

\* The values asked of the sliders of the Julia constant.
JuliaRequests ==
    [julia_x |-> {-3 * FX, 0, 12, 25, -19975},
     julia_y |-> {3 * FX, 3525},
     julia_z |-> {1000}]

EditsUI ==
    {NoEdit, Edit("animate_power", 0), Edit("animate_zoom", 0),
     Edit("julia_enabled", 0)}
    \cup {Edit("palette_id", i) : i \in 1..Len(PaletteOptions)}
    \cup UNION {{Edit(w, v) : v \in Requests[w]} : w \in DOMAIN Requests}

\* The frames of SpecUI: the pointer works the control surface.
InputsUI == {Input(2, <<>>, FALSE, TRUE, e, FALSE) : e \in EditsUI}

EditsJulia ==
    {NoEdit, Edit("julia_enabled", 0)}
    \cup UNION {{Edit(w, v) : v \in JuliaRequests[w]} : w \in DOMAIN JuliaRequests}

\* The frames of SpecJulia: the pointer works the Julia block.
InputsJulia == {Input(2, <<>>, FALSE, TRUE, e, FALSE) : e \in EditsJulia}

\* The frames of SpecRot: fast and slow frames, pointer motion with the
\* button up or down, over the control surface or not.
InputsRot ==
    {Input(dt, mo, left, over, NoEdit, FALSE) :
        dt \in {1, 32}, mo \in {<<>>, <<MotionA>>, <<MotionA, MotionB>>},
        left \in BOOLEAN, over \in BOOLEAN}

EditsAnim ==
    {NoEdit, Edit("animate_power", 0), Edit("animate_zoom", 0),
     Edit("power_speed", 4 * FX), Edit("zoom_speed", 5 * FX),
     Edit("power", 20 * FX), Edit("camera_zoom", 0)}

\* The frames of SpecAnim: slow frames, the animations switched and edited in
\* the first frames and then left to run.
InputsAnim ==
    {Input(MaxDelta, <<>>, FALSE, TRUE, e, FALSE) :
        e \in IF tick < MaxEditTicks THEN EditsAnim ELSE {NoEdit}}

Systems ==
    \/ update_material
    \/ mouse_controls
    \/ manage_rendering_mode
    \/ ui_controls
    \/ Extract

Next ==
    \/ BeginFrame(InputsMain, MaxTicks)
    \/ Systems
    \/ RenderPixel

Spec == Init /\ [][Next]_vars

NextUI == BeginFrame(InputsUI, MaxTicksUI) \/ Systems

SpecUI == Init /\ [][NextUI]_vars

NextJulia == BeginFrame(InputsJulia, MaxTicksJulia) \/ Systems

SpecJulia == Init /\ [][NextJulia]_vars

NextRot == BeginFrame(InputsRot, MaxTicksRot) \/ Systems

SpecRot == Init /\ [][NextRot]_vars

NextAnim == BeginFrame(InputsAnim, MaxTicksAnim) \/ Systems

SpecAnim == Init /\ [][NextAnim]_vars

\* ------------------------------------------------------------------- claims

\* Where a system stands in the frame's order (0: it has not run).
Pos(name) ==
    IF Ran(name) THEN CHOOSE i \in 1..Len(order) : order[i] = name ELSE 0

Count(name) == Cardinality({i \in 1..Len(order) : order[i] = name})

\* A frame has run to its end.
FrameEnd == pc = "winit" /\ tick > 0

\* The cadence the spec gives a state of the flags: continuous when any
\* animation is on, else the two idle polls (1/60 s focused, 1 s unfocused).
CadenceOf(s) ==
    IF s.animate_power \/ s.animate_zoom \/ s.rotation_speed > 0
    THEN [focused_mode |-> [kind |-> "Continuous", wait |-> 0],
          unfocused_mode |-> [kind |-> "Continuous", wait |-> 0]]
    ELSE [focused_mode |-> [kind |-> "Reactive", wait |-> 16666],
          unfocused_mode |-> [kind |-> "Reactive", wait |-> 1000000]]

\* C1 as stated: once manage_rendering_mode has run in a tick, and so at the
\* tick's end, the update modes are the cadence of the flags as they then are.
C1_CadenceAtTickEnd ==
    Ran("manage_rendering_mode") => winit_settings = CadenceOf(settings)

\* C1 amended: from the run of manage_rendering_mode until the control
\* surface is worked, the update modes are the cadence of the flags; and when
\* ui_controls has run, they are still the cadence of the flags as they were
\* before it, so a flag it changes shows in the modes from the next tick's run.
C1_CadenceFollowsFlags ==
    [][/\ (Ran("manage_rendering_mode") /\ pc \in {"update", "egui"})
            => winit_settings = CadenceOf(settings)
       /\ (pc = "egui" /\ pc' = "extract")
            => winit_settings' = CadenceOf(settings)
       /\ (Ran("manage_rendering_mode")' /\ ~Ran("manage_rendering_mode"))
            => winit_settings' = CadenceOf(settings')]_vars

\* C1's case: all three switched off in an earlier tick, and the run of
\* manage_rendering_mode has taken the modes back from continuous to idle poll.
C1_Witness ==
    /\ pc = "egui"
    /\ ~settings.animate_power /\ ~settings.animate_zoom
    /\ settings.rotation_speed = 0
    /\ winit_settings.focused_mode = [kind |-> "Reactive", wait |-> 16666]
    /\ winit_settings.unfocused_mode = [kind |-> "Reactive", wait |-> 1000000]

\* C4 as stated: in every tick mouse_controls runs before update_material,
\* update_material before ui_controls, and the one copy is taken after them.
C4_FixedOrder ==
    FrameEnd =>
        /\ Pos("mouse_controls") < Pos("update_material")
        /\ Pos("update_material") < Pos("ui_controls")
        /\ Pos("ui_controls") < Pos("snapshot")
        /\ Count("snapshot") = 1

\* C4 amended: in every tick mouse_controls and update_material each run
\* once, in either order, both before ui_controls, and exactly one copy is
\* taken, after ui_controls; no copy is taken before the control surface's
\* edits, and ui_controls never runs before the other two.
C4_EditsLastThenSnapshot ==
    /\ Ran("snapshot") => Ran("ui_controls")
    /\ Ran("ui_controls") => Ran("mouse_controls") /\ Ran("update_material")
    /\ \A n \in {"mouse_controls", "update_material", "ui_controls", "snapshot"} :
          Count(n) <= 1
    /\ FrameEnd =>
          /\ \A n \in {"mouse_controls", "update_material", "ui_controls", "snapshot"} :
                Count(n) = 1
          /\ Pos("mouse_controls") < Pos("ui_controls")
          /\ Pos("update_material") < Pos("ui_controls")
          /\ Pos("ui_controls") < Pos("snapshot")
          /\ frame = tick

\* C4's case: a tick has ended in which update_material ran before
\* mouse_controls.
C4_Witness ==
    /\ FrameEnd
    /\ Pos("update_material") > 0
    /\ Pos("update_material") < Pos("mouse_controls")
    /\ Pos("snapshot") = Len(order)

\* C5: every pixel of the frame being drawn has read the frame's copy, so all
\* of them read the same values, whatever the control path has since written
\* to the live material.
C5_SnapshotThenDispatch ==
    \A p \in 1..NPixels :
        pix[p] # <<>> =>
            /\ pix[p][1] = snapshot
            /\ \A q \in 1..NPixels : pix[q] # <<>> => pix[q] = pix[p]

\* C5's case: a pixel has read, another is still to read, and the control
\* path has changed the live material since the copy was taken.
C5_Witness ==
    /\ dispatched
    /\ mat # snapshot
    /\ \E p, q \in 1..NPixels : pix[p] # <<>> /\ pix[q] = <<>>
    /\ pc = "extract"

\* The control surface's pass over the widgets is the step being taken.
UiStep == pc = "egui" /\ pc' = "extract"

\* The domains the spec gives the fields written by hand.
Domain ==
    [power |-> <<FX, 16 * FX>>,
     mandel_iters |-> <<1 * FX, 50 * FX>>,
     ray_steps |-> <<10 * FX, 300 * FX>>,
     max_dist |-> <<10 * FX, 100 * FX>>,
     camera_zoom |-> <<1000, 10 * FX>>,
     color_scale |-> <<1000, 3 * FX>>,
     color_offset |-> <<0, FX>>,
     light_pos_x |-> <<-10 * FX, 10 * FX>>,
     light_pos_y |-> <<-10 * FX, 10 * FX>>]

\* v moved to the nearest bound of field w's domain.
Nearest(w, v) ==
    IF v < Domain[w][1] THEN Domain[w][1]
    ELSE IF v > Domain[w][2] THEN Domain[w][2] ELSE v

\* The stored value of field w as a real (the whole-number fields hold a
\* count).
AsReal(w, x) == IF w \in {"mandel_iters", "ray_steps"} THEN x * FX ELSE x

\* The slider of field w takes interactions (those of power and cameraZoom
\* do not while the field's animation is on).
Writable(w) ==
    /\ w = "power" => ~settings.animate_power
    /\ w = "camera_zoom" => ~settings.animate_zoom

\* C2 as stated: a value written by hand to one of the nine fields is stored
\* as the value itself moved to the nearest bound of the field's domain,
\* whatever the value.
C2_StoredIsClamped ==
    [][UiStep =>
        \A w \in DOMAIN Domain :
            (input.edit.w = w /\ Writable(w))
                => AsReal(w, mat'[w]) = Nearest(w, input.edit.v)]_vars

\* The grid the control surface keeps a field on: whole numbers for the two
\* counts, hundredths counted from 0.1 for colorScale, two-hundredths counted
\* from 0 for colorOffset, and none (0) for the others.
Grid ==
    [power |-> 0, mandel_iters |-> FX, ray_steps |-> FX, max_dist |-> 0,
     camera_zoom |-> 0, color_scale |-> 100, color_offset |-> 50,
     light_pos_x |-> 0, light_pos_y |-> 0]

\* x is what the control surface may store for the clamped value c of field
\* w: c itself where the field has no grid, the whole part of c for a count,
\* and for colorScale and colorOffset a point of the grid nearest to c (of
\* two equally near, either).
Kept(w, x, c) ==
    IF Grid[w] = 0 THEN x = c
    ELSE IF w \in {"mandel_iters", "ray_steps"}
    THEN x <= c /\ c < x + FX /\ x % FX = 0
    ELSE /\ (x - Domain[w][1]) % Grid[w] = 0
         /\ 2 * (x - c) <= Grid[w]
         /\ 2 * (c - x) <= Grid[w]

\* C2, amended: a value written by hand to one of the nine fields is never
\* rejected; it is moved to the nearest bound of the field's domain and
\* stored, as it is for the fields without a grid, cut to its whole part for
\* mandelIterations and rayStepCount, and rounded to the nearest hundredth
\* for colorScale and the nearest two-hundredth for colorOffset; the stored
\* value is always inside the domain; the write of power = 20 stores 16 and
\* that of mandelIterations = 0 stores 1.
C2_WritesClamped ==
    [][UiStep =>
        /\ \A w \in DOMAIN Domain :
              (input.edit.w = w /\ Writable(w))
                  => /\ Kept(w, AsReal(w, mat'[w]), Nearest(w, input.edit.v))
                     /\ Domain[w][1] <= AsReal(w, mat'[w])
                     /\ AsReal(w, mat'[w]) <= Domain[w][2]
        /\ (input.edit = Edit("power", 20 * FX) /\ Writable("power"))
              => mat'.power = 16 * FX
        /\ input.edit = Edit("mandel_iters", 0) => mat'.mandel_iters = 1]_vars

\* C2's case: power = 20 has been written and stored as 16, and now
\* colorScale = 1.234 has been written and stored as 1.23.
C2_Witness ==
    /\ pc = "extract"
    /\ input.edit = Edit("color_scale", 12340)
    /\ mat.color_scale = 12300
    /\ mat.power = 16 * FX

\* The name of the palette a text of the combo box shows.
PaletteName(text) ==
    CASE text = "Standard" -> "Standard"
      [] text = "Fire (Red/Yellow)" -> "Fire"
      [] text = "Neon (Purple/Green)" -> "Neon"
      [] OTHER -> "Unknown"

\* C9: choosing an option of the palette list stores an id under which the
\* combo box shows that option's palette, and the stored id never shows as
\* "Unknown".
C9_PaletteConsistent ==
    /\ SelectedText(mat.palette_id) # "Unknown"
    /\ (pc = "extract" /\ input.edit.w = "palette_id")
          => PaletteName(SelectedText(mat.palette_id))
                = PaletteOptions[input.edit.v].label

\* C10: the fourth component of julia is 0 or 1 in every state and starts at 0
\* beside (0.35, 0.35, -0.35); the toggle stores 1 when it was off and 0 when
\* it was on and leaves the three components as they are; and a component
\* changes only in a pass that finds the flag at 1 and leaves it at 1.
C10_JuliaFlag ==
    /\ [](mat.julia.w \in {0, FX})
    /\ [](tick = 0 => mat.julia = [x |-> 3500, y |-> 3500, z |-> -3500, w |-> 0])
    /\ [][/\ (UiStep /\ input.edit.w = "julia_enabled")
               => /\ mat'.julia.w = IF mat.julia.w = 0 THEN FX ELSE 0
                  /\ mat'.julia.x = mat.julia.x
                  /\ mat'.julia.y = mat.julia.y
                  /\ mat'.julia.z = mat.julia.z
          /\ (mat'.julia.x # mat.julia.x \/ mat'.julia.y # mat.julia.y
                \/ mat'.julia.z # mat.julia.z)
               => mat.julia.w = FX /\ mat'.julia.w = FX
          /\ (mat'.julia.w # mat.julia.w)
               => (UiStep /\ input.edit.w = "julia_enabled")]_vars

\* C10's case: Julia mode was switched on, a component of the constant was
\* edited with the flag at 1 (a value midway between two steps was asked
\* for), and Julia mode has now been switched off again.
C10_Witness ==
    /\ pc = "extract"
    /\ input.edit.w = "julia_enabled"
    /\ mat.julia.w = 0
    /\ mat.julia.x = 50

\* update_material is the step being taken.
UpdateMaterialStep == ~Ran("update_material") /\ Ran("update_material")'

\* mouse_controls is the step being taken.
MouseControlsStep == ~Ran("mouse_controls") /\ Ran("mouse_controls")'

\* The values the spec gives the two oscillations at the clock's time:
\* 16^(sine normalized into [0, 1]) and 2.75 + 0.25 * sine.
DrivenPower == Pow16(FX \div 2 + Rnd(Sin(Rnd(elapsed * settings.power_speed, 10 * TimeHz)), 2))

DrivenZoom == 27500 + Rnd(2500 * Sin(Rnd(elapsed * settings.zoom_speed, TimeHz)), FX)

\* C6: in a tick that animate_power is on for, update_material stores the
\* driven power, the control surface's pass leaves it there whatever is asked
\* of the power slider, and so the tick ends with the driven power stored;
\* the same for cameraZoom under animate_zoom.  With the flag off
\* update_material leaves the field as it is and a value asked of the slider
\* is stored (clamped).
C6_AnimationOverrides ==
    [][/\ (UpdateMaterialStep /\ settings.animate_power) => mat'.power = DrivenPower
       /\ (UpdateMaterialStep /\ settings.animate_zoom) => mat'.camera_zoom = DrivenZoom
       /\ (UpdateMaterialStep /\ ~settings.animate_power) => mat'.power = mat.power
       /\ (UpdateMaterialStep /\ ~settings.animate_zoom)
             => mat'.camera_zoom = mat.camera_zoom
       /\ (UiStep /\ settings.animate_power)
             => mat'.power = mat.power /\ mat'.power = DrivenPower
       /\ (UiStep /\ settings.animate_zoom)
             => mat'.camera_zoom = mat.camera_zoom /\ mat'.camera_zoom = DrivenZoom
       /\ (UiStep /\ ~settings.animate_power /\ input.edit.w = "power")
             => mat'.power = Nearest("power", input.edit.v)
       /\ (UiStep /\ ~settings.animate_zoom /\ input.edit.w = "camera_zoom")
             => mat'.camera_zoom = Nearest("camera_zoom", input.edit.v)]_vars

\* C6's case: with animate_power on, power = 20 was asked of the slider, and
\* the pass has left the driven power, which is not the 16 the write would
\* have stored.
C6_Witness ==
    /\ pc = "extract"
    /\ settings.animate_power
    /\ input.edit = Edit("power", 20 * FX)
    /\ mat.power = DrivenPower
    /\ mat.power # 16 * FX

\* C8: the driven power lies in [1, 16] and the driven zoom in [2.5, 3.0]
\* whenever update_material has just written them, and in every state the
\* stored power is in [1, 16] and the stored cameraZoom in [0.1, 10].
C8_AnimatedInDomain ==
    /\ FX <= mat.power /\ mat.power <= 16 * FX
    /\ 1000 <= mat.camera_zoom /\ mat.camera_zoom <= 10 * FX
    /\ (Ran("update_material") /\ pc \in {"update", "egui"} /\ settings.animate_zoom)
          => 25000 <= mat.camera_zoom /\ mat.camera_zoom <= 30000
    /\ (Ran("update_material") /\ pc \in {"update", "egui"} /\ settings.animate_power)
          => FX <= mat.power /\ mat.power <= 16 * FX

\* C8's case: both oscillations are on, update_material has just written
\* them, and the power has come down to within a twentieth of its lower bound.
C8_Witness ==
    /\ pc = "egui"
    /\ settings.animate_power /\ settings.animate_zoom
    /\ mat.power = DrivenPower
    /\ mat.power <= FX + FX \div 20

\* The tolerance on the squared norm: a norm within 1.5 / FX of 1.
NormTolerance == 3 * FX

\* C3: the stored orientation starts as the identity and its norm is within
\* the tolerance of 1 in every state.
C3_UnitQuaternion ==
    /\ tick = 0 => mat.rotation = [x |-> 0, y |-> 0, z |-> 0, w |-> FX]
    /\ NormSq(mat.rotation) - FX * FX <= NormTolerance
    /\ FX * FX - NormSq(mat.rotation) <= NormTolerance

\* C3's case: in the fourth tick, with the automatic rotation on, a drag of
\* two motions has just been composed after the automatic step.
C3_Witness ==
    /\ tick >= 4
    /\ pc \in {"update", "egui"}
    /\ settings.rotation_speed > 0 /\ delta > 0
    /\ Pos("update_material") > 0
    /\ Pos("update_material") < Pos("mouse_controls")
    /\ ReadsMotion(input) /\ Len(input.motion) = 2
    /\ mat.rotation.x # 0 /\ mat.rotation.y # 0 /\ mat.rotation.z # 0

\* C7: a run of mouse_controls changes the orientation by the motion of its
\* own tick when the button is held and the pointer is not captured, and not
\* at all otherwise; motion of a tick whose gate was shut is never composed.
C7_GatedMotionIgnored ==
    [][MouseControlsStep =>
          mat'.rotation =
              IF input.left /\ ~input.over_ui
              THEN ApplyMotion(mat.rotation, input.motion)
              ELSE mat.rotation]_vars

====
